---- MODULE Spec2Model ----
(***************************************************************************)
(* Report Automation (src/app.py): the three report pipelines              *)
(* run_workflow_pros_crm, run_usa_housecall and run_plumbing as one state  *)
(* machine.  One run of one pipeline is modelled from the moment the       *)
(* function is called to the moment it returns a URL, returns None after   *)
(* st.error, or is left by an exception no handler of the function         *)
(* catches.  The spreadsheet service (gspread) is the environment: each    *)
(* of its calls either succeeds or raises.                                 *)
(*                                                                         *)
(* Text is a sequence of one-character strings, so that str.strip, the     *)
(* regular expression "\.0$" and float() are computed, not assumed.        *)
(***************************************************************************)
EXTENDS Integers, Sequences, FiniteSets, TLC

\* Largest number of data rows of an uploaded file.
MaxRows == 3

(***************************************************************************)
(* Text helpers                                                            *)
(***************************************************************************)
Whitespace == {" "}

Digits == <<"0", "1", "2", "3", "4", "5", "6", "7", "8", "9">>

IsDigit(c) == \E i \in 1..10 : Digits[i] = c

DigitVal(c) == (CHOOSE i \in 1..10 : Digits[i] = c) - 1

SetMin(S) == CHOOSE x \in S : \A y \in S : x <= y

SetMax(S) == CHOOSE x \in S : \A y \in S : x >= y

Range(s) == {s[i] : i \in DOMAIN s}

\* str.strip(): leading and trailing whitespace removed.
Strip(s) ==
    LET keep == {i \in 1..Len(s) : s[i] \notin Whitespace}
    IN  IF keep = {} THEN <<>> ELSE SubSeq(s, SetMin(keep), SetMax(keep))

\* str.replace(c, "") for each character c of chars.
RemoveChars(s, chars) == SelectSeq(s, LAMBDA c : c \notin chars)

\* .str.replace(r"\.0$", "", regex=True): one trailing ".0" removed.
StripDotZero(s) ==
    IF Len(s) >= 2 /\ s[Len(s) - 1] = "." /\ s[Len(s)] = "0"
    THEN SubSeq(s, 1, Len(s) - 2)
    ELSE s

(***************************************************************************)
(* Cells of the uploaded table, as pandas holds them: text, a float with   *)
(* an integral value (s holds the digits of the integer part), or a        *)
(* missing value (NaN).                                                    *)
(***************************************************************************)
Str(s) == [kind |-> "str", s |-> s]

Float(s) == [kind |-> "float", s |-> s]

NaN == [kind |-> "nan", s |-> <<>>]

\* pd.isna(x)
IsNa(c) == c.kind = "nan"

\* str(x) / .astype(str): a missing value becomes the text "nan", the text
\* that lines 468 and 551 of app.py replace afterwards.
AsStr(c) ==
    CASE c.kind = "str" -> c.s
      [] c.kind = "float" -> c.s \o <<".", "0">>
      [] OTHER -> <<"n", "a", "n">>

(***************************************************************************)
(* float(s) of Python on the alphabet used here: optional sign, digits     *)
(* with an optional decimal point, or one of nan / inf; surrounding        *)
(* whitespace is ignored.  A number is held as mant / 10^frac.             *)
(***************************************************************************)
Zero == [kind |-> "num", neg |-> FALSE, mant |-> 0, frac |-> 0]

RECURSIVE DigitsValue(_)
DigitsValue(s) ==
    IF s = <<>> THEN 0
    ELSE 10 * DigitsValue(SubSeq(s, 1, Len(s) - 1)) + DigitVal(s[Len(s)])

ParseFloat(s) ==
    LET t    == Strip(s)
        sgn  == t # <<>> /\ t[1] \in {"+", "-"}
        neg  == t # <<>> /\ t[1] = "-"
        body == IF sgn THEN SubSeq(t, 2, Len(t)) ELSE t
        dots == {i \in 1..Len(body) : body[i] = "."}
        digs == RemoveChars(body, {"."})
    IN  IF body = <<"n", "a", "n">>
        THEN [ok |-> TRUE, val |-> [kind |-> "nan", neg |-> neg, mant |-> 0, frac |-> 0]]
        ELSE IF body = <<"i", "n", "f">>
        THEN [ok |-> TRUE, val |-> [kind |-> "inf", neg |-> neg, mant |-> 0, frac |-> 0]]
        ELSE IF /\ digs # <<>>
                /\ \A i \in 1..Len(digs) : IsDigit(digs[i])
                /\ Cardinality(dots) <= 1
        THEN [ok |-> TRUE,
              val |-> [kind |-> "num",
                       neg  |-> neg /\ DigitsValue(digs) # 0,
                       mant |-> DigitsValue(digs),
                       frac |-> IF dots = {} THEN 0
                                ELSE Len(body) - SetMin(dots)]]
        ELSE [ok |-> FALSE, val |-> Zero]

\* money_to_float(x)
money_to_float(x) ==
    IF IsNa(x) THEN Zero
    ELSE LET s == RemoveChars(Strip(AsStr(x)), {"$", ","})
         IN  IF s = <<>> THEN Zero
             ELSE IF ParseFloat(s).ok THEN ParseFloat(s).val ELSE Zero

\* f > 0 on floats (nan compares false with everything).
GreaterThanZero(f) ==
    \/ f.kind = "num" /\ ~f.neg /\ f.mant > 0
    \/ f.kind = "inf" /\ ~f.neg

(***************************************************************************)
(* Program constants                                                       *)
(***************************************************************************)
Variants == {"crm", "usa", "plumbing"}

\* run_workflow_pros_crm: REQUIRED_COLS
CRM_REQUIRED_COLS ==
    <<"Invoice ID", "Payment Date", "Payment Method", "Payment Status",
      "Payment Amount", "Outstanding Balance", "Client", "Email",
      "Phone Number", "Total", "Created By">>

\* run_usa_housecall: NEEDED_COLS
USA_NEEDED_COLS ==
    <<"Customer Name", "Invoice Number", "Invoice Status",
      "Assigned Employee Name", "Job Status", "Payment Amount">>

\* run_usa_housecall: OUTPUT_COLS
USA_OUTPUT_COLS ==
    <<"Customer Name", "Invoice Number", "Invoice Status",
      "Clean Employee Name", "Job Status">>

\* run_plumbing: REQUIRED_COLS
PLUMBING_REQUIRED_COLS ==
    <<"Payment Type", "Amount", "Invoice Number", "Invoice Total",
      "Invoice Balance", "Payment Method", "Paid On",
      "Completion Date", "Assigned Technicians">>

\* run_plumbing: OUTPUT_COLS
PLUMBING_OUTPUT_COLS ==
    <<"Payment Type", "Amount", "Invoice Number", "Invoice Total",
      "Paid On", "Completion Date", "Assigned Technicians">>

\* run_plumbing: FINAL_COLS = OUTPUT_COLS + ["Found On"]
FINAL_COLS == PLUMBING_OUTPUT_COLS \o <<"Found On">>

SHARE_EMAIL == "yuskov.y@workflow.com.ua"

PLUMBING_SHARE_EMAILS ==
    <<"yuskov.y@workflow.com.ua", "oleksandr.leoshko@workflow.com.ua">>

\* (tab_name, column_index)
PLUMBING_REVIEW_TABS ==
    <<[tab |-> "Alina", col |-> 1],
      [tab |-> "Alex", col |-> 3],
      [tab |-> "Eugene", col |-> 2]>>

\* The columns each pipeline requires of its input.
RequiredCols(v) ==
    CASE v = "crm" -> CRM_REQUIRED_COLS
      [] v = "usa" -> USA_NEEDED_COLS
      [] OTHER -> PLUMBING_REQUIRED_COLS

\* The recipients each pipeline shares the sheet with.
ShareEmails(v) ==
    IF v = "plumbing" THEN PLUMBING_SHARE_EMAILS ELSE <<SHARE_EMAIL>>

(***************************************************************************)
(* Inputs: the uploaded files and the review lists the runs are checked on *)
(***************************************************************************)
Row(inv, amount, balance) == [inv |-> inv, amount |-> amount, balance |-> balance]

Seven == <<"7">>
SevenPadded == <<" ", "7">>
Eight == <<"8">>
Nine == <<"9">>
Five == <<"$", "5">>
Nought == <<"$", "0">>
Ten == <<"$", "1", "0">>

\* The data rows a file may hold, by pipeline (identifier, payment amount,
\* outstanding balance; a column the pipeline does not read is left NaN).
RowPool(v) ==
    CASE v = "crm" ->
           {Row(Str(Seven), Str(Five), Str(Ten)),
            Row(Str(SevenPadded), Str(Five), NaN),
            Row(Str(Eight), Str(Five), NaN),
            Row(Str(Eight), Str(Nought), Str(Ten)),
            Row(Str(Nine), Str(Five), Str(Ten))}
      [] v = "usa" ->
           {Row(Str(Seven), Str(Five), NaN),
            Row(Str(SevenPadded), Str(Five), NaN),
            Row(Str(Eight), Str(Five), NaN),
            Row(Str(Eight), NaN, NaN),
            Row(Str(Nine), Str(Five), NaN)}
      [] OTHER ->
           {Row(Str(Seven), NaN, NaN),
            Row(Float(Seven), NaN, NaN),
            Row(NaN, NaN, NaN),
            Row(Str(<<" ">>), NaN, NaN),
            Row(Str(<<"N", "a", "T">>), NaN, NaN),
            Row(Str(Nine), NaN, NaN)}

RowSeqs(v) == UNION {[1..n -> RowPool(v)] : n \in 0..MaxRows}

\* The required columns a file may lack, by pipeline.
Droppable(v) ==
    CASE v = "crm" -> {"Invoice ID", "Payment Amount", "Created By"}
      [] v = "usa" -> {"Customer Name", "Invoice Number", "Payment Amount"}
      [] OTHER -> {"Payment Type", "Invoice Balance", "Assigned Technicians"}

ColumnSets(v) == {(Range(RequiredCols(v)) \ d) \cup {"Notes"} : d \in SUBSET Droppable(v)}

\* What worksheet.col_values may return for a reviewer tab (generic, US).
ReviewerLists == {<<>>, <<<<" ", "7", " ">>, <<>>>>, <<Eight, Seven>>}

\* What worksheet.col_values may return for a plumbing review tab.
TabLists == {<<<<" ", "7", " ">>, <<>>>>, <<Nine, Seven>>}

(***************************************************************************)
(* The data path: the pure steps of the pipelines                          *)
(***************************************************************************)
\* MissingColumns stopping at the first absent column.
MissingColumnsFirstOnly(required, cols) ==
    LET m == SelectSeq(required, LAMBDA c : c \notin cols)
    IN  IF m = <<>> THEN <<>> ELSE <<Head(m)>>

\* missing = [c for c in REQUIRED_COLS if c not in df.columns]
MissingColumns(required, cols) == SelectSeq(required, LAMBDA c : c \notin cols)

\* The rows of the DataFrame with their index labels (0-based in pandas,
\* 1-based here).
Indexed(rs) ==
    [i \in 1..Len(rs) |->
        [idx |-> i, inv |-> rs[i].inv, amount |-> rs[i].amount, balance |-> rs[i].balance]]

\* df[df["Payment Amount"].apply(money_to_float) > 0]
PaymentFilter(rs) ==
    SelectSeq(rs, LAMBDA r : GreaterThanZero(money_to_float(r.amount)))

\* .astype(str).str.strip(), and for the plumbing report the trailing ".0".
NormalizeId(v, cell) ==
    IF v = "plumbing" THEN StripDotZero(Strip(AsStr(cell))) ELSE Strip(AsStr(cell))

RECURSIVE KeepFirst(_, _)
KeepFirst(rs, seen) ==
    IF rs = <<>> THEN <<>>
    ELSE IF Head(rs).inv \in seen
         THEN KeepFirst(Tail(rs), seen)
         ELSE <<Head(rs)>> \o KeepFirst(Tail(rs), seen \cup {Head(rs).inv})

\* df.drop_duplicates(subset=[identifier], keep="first")
drop_duplicates(rs) == KeepFirst(rs, {})

\* .astype(str).replace("NaT", "").replace("nan", ""): whole values only.
PlainString(s) ==
    IF s \in {<<"N", "a", "T">>, <<"n", "a", "n">>} THEN <<>> ELSE s

\* The identifier column set to its normalized text.
WithIds(v, rs) ==
    [i \in 1..Len(rs) |->
        [idx |-> rs[i].idx, inv |-> NormalizeId(v, rs[i].inv), balance |-> rs[i].balance]]

\* The rows before deduplication: filtered (generic, US) and normalized.
BeforeDedup(v, rs) ==
    IF v = "plumbing" THEN WithIds(v, Indexed(rs))
    ELSE WithIds(v, PaymentFilter(Indexed(rs)))

\* Steps 3 of the three pipelines: filter, normalize, deduplicate and, in the
\* plumbing report, turn every value into plain text.
Prepare(v, rs) ==
    LET d == drop_duplicates(BeforeDedup(v, rs))
    IN  IF v = "plumbing"
        THEN [i \in 1..Len(d) |-> [d[i] EXCEPT !.inv = PlainString(@)]]
        ELSE d

\* {str(x).strip() for x in col_values if str(x).strip()}
ReviewSet(values) == {Strip(values[i]) : i \in DOMAIN values} \ {<<>>}

\* CategorizeRow with "if" for "elif" in the second reviewer's branch.
CategorizeRowBoth(v, r, alex, eugene) ==
    LET inv == Strip(r.inv)
    IN  (IF inv \in alex THEN {"yellow_rows"} ELSE {})
        \cup
        (IF inv \in eugene THEN {"orange_rows"}
         ELSE IF inv \in alex THEN {}
         ELSE IF v = "usa" THEN {"regular_rows"}
         ELSE IF GreaterThanZero(money_to_float(r.balance)) THEN {"regular_due"}
         ELSE {"regular_no_due"})

\* CategorizeRow with the two reviewer sets tested in the other order.
CategorizeRowEugeneFirst(v, r, alex, eugene) ==
    LET inv == Strip(r.inv)
    IN  IF inv \in eugene THEN {"orange_rows"}
        ELSE IF inv \in alex THEN {"yellow_rows"}
        ELSE IF v = "usa" THEN {"regular_rows"}
        ELSE IF GreaterThanZero(money_to_float(r.balance)) THEN {"regular_due"}
        ELSE {"regular_no_due"}

\* The bucket lists a row is appended to in the categorizing loop (generic
\* and US: by the two reviewer sets and the outstanding balance).
CategorizeRow(v, r, alex, eugene) ==
    LET inv == Strip(r.inv)
    IN  IF inv \in alex THEN {"yellow_rows"}
        ELSE IF inv \in eugene THEN {"orange_rows"}
        ELSE IF v = "usa" THEN {"regular_rows"}
        ELSE IF GreaterThanZero(money_to_float(r.balance)) THEN {"regular_due"}
        ELSE {"regular_no_due"}

\* The same for the plumbing report, by the invoice-to-tab mapping.
CategorizePlumbingRow(r, map) ==
    LET inv == Strip(r.inv)
    IN  IF inv # <<>> /\ inv \in DOMAIN map THEN {"duplicate_rows"} ELSE {"clean_rows"}

\* row_copy["Found On"]
FoundOn(r, map) ==
    LET inv == Strip(r.inv)
    IN  IF inv # <<>> /\ inv \in DOMAIN map THEN map[inv] ELSE ""

\* The order in which the bucket lists are concatenated.
BucketOrder(v) ==
    CASE v = "crm" -> <<"regular_no_due", "regular_due", "yellow_rows", "orange_rows">>
      [] v = "usa" -> <<"regular_rows", "yellow_rows", "orange_rows">>
      [] OTHER -> <<"clean_rows", "duplicate_rows">>

RECURSIVE Concat(_, _)
Concat(b, order) ==
    IF order = <<>> THEN <<>> ELSE b[Head(order)] \o Concat(b, Tail(order))

\* OrderedRows with the reference-matched buckets put first.
OrderedRowsMatchedFirst(v, b) ==
    LET o == BucketOrder(v)
    IN  Concat(b, [i \in 1..Len(o) |-> o[Len(o) + 1 - i]])

\* regular_no_due + regular_due + yellow_rows + orange_rows, and alike.
OrderedRows(v, b) == Concat(b, BucketOrder(v))

\* HighlightFormats counting from row 1, the header row.
HighlightFormatsNoHeader(v, b) ==
    IF v = "plumbing"
    THEN IF b["duplicate_rows"] # <<>>
         THEN LET start_dupes == Len(b["clean_rows"]) + 1
                  end_dupes   == start_dupes + Len(b["duplicate_rows"]) - 1
              IN  <<[first |-> start_dupes, last |-> end_dupes, color |-> "dark_red"]>>
         ELSE <<>>
    ELSE LET start_yellow == (IF v = "crm"
                              THEN Len(b["regular_no_due"]) + Len(b["regular_due"])
                              ELSE Len(b["regular_rows"])) + 1
             end_yellow   == start_yellow + Len(b["yellow_rows"])
             start_orange == end_yellow
             end_orange   == start_orange + Len(b["orange_rows"])
         IN  (IF b["yellow_rows"] # <<>>
              THEN <<[first |-> start_yellow, last |-> end_yellow - 1, color |-> "yellow"]>>
              ELSE <<>>)
             \o
             (IF b["orange_rows"] # <<>>
              THEN <<[first |-> start_orange, last |-> end_orange - 1, color |-> "orange"]>>
              ELSE <<>>)

\* The highlight requests handed to worksheet.batch_format.
HighlightFormats(v, b) ==
    IF v = "plumbing"
    THEN IF b["duplicate_rows"] # <<>>
         THEN LET start_dupes == Len(b["clean_rows"]) + 2
                  end_dupes   == start_dupes + Len(b["duplicate_rows"]) - 1
              IN  <<[first |-> start_dupes, last |-> end_dupes, color |-> "dark_red"]>>
         ELSE <<>>
    ELSE LET start_yellow == (IF v = "crm"
                              THEN Len(b["regular_no_due"]) + Len(b["regular_due"])
                              ELSE Len(b["regular_rows"])) + 2
             end_yellow   == start_yellow + Len(b["yellow_rows"])
             start_orange == end_yellow
             end_orange   == start_orange + Len(b["orange_rows"])
         IN  (IF b["yellow_rows"] # <<>>
              THEN <<[first |-> start_yellow, last |-> end_yellow - 1, color |-> "yellow"]>>
              ELSE <<>>)
             \o
             (IF b["orange_rows"] # <<>>
              THEN <<[first |-> start_orange, last |-> end_orange - 1, color |-> "orange"]>>
              ELSE <<>>)

(***************************************************************************)
(* The plumbing review tabs                                                *)
(***************************************************************************)
\* What reviews_sheet.worksheet(tab).col_values(col) does for one tab: the tab
\* is missing (WorksheetNotFound), the call raises another error, or the
\* column's values are returned.
TabStates ==
    {[st |-> "missing", values |-> <<>>], [st |-> "error", values |-> <<>>]}
    \cup {[st |-> "ok", values |-> l] : l \in TabLists}

TabNames == {PLUMBING_REVIEW_TABS[i].tab : i \in DOMAIN PLUMBING_REVIEW_TABS}

\* TabIsSkipped without the WorksheetNotFound handler.
TabNeverSkipped(s) == FALSE

\* except gspread.exceptions.WorksheetNotFound: the tab is skipped.
TabIsSkipped(s) == s.st = "missing"

\* for inv in tab_invoices: if inv not in invoice_to_tab: invoice_to_tab[inv] = tab_name
AddTab(map, tab, values) ==
    IF ReviewSet(values) \subseteq DOMAIN map THEN map
    ELSE [x \in DOMAIN map \cup ReviewSet(values) |->
             IF x \in DOMAIN map THEN map[x] ELSE tab]

\* for tab_name, col_index in PLUMBING_REVIEW_TABS: ... ; an error that is not
\* WorksheetNotFound leaves the loop for the outer handler.
RECURSIVE LoadTabs(_, _, _, _)
LoadTabs(tabs, ts, map, log) ==
    IF tabs = <<>> THEN [map |-> map, log |-> log, failed |-> FALSE]
    ELSE LET t == Head(tabs).tab
             s == ts[t]
             entry == [tab |-> t, col |-> Head(tabs).col, st |-> s.st, values |-> s.values]
         IN  IF TabIsSkipped(s)
             THEN LoadTabs(Tail(tabs), ts, map, Append(log, entry))
             ELSE IF s.st = "ok"
             THEN LoadTabs(Tail(tabs), ts, AddTab(map, t, s.values), Append(log, entry))
             ELSE [map |-> map, log |-> Append(log, entry), failed |-> TRUE]

(***************************************************************************)
(* State                                                                   *)
(***************************************************************************)
VARIABLES
    variant,          \* which pipeline runs
    pc,               \* the step the run is at, or ended at
    result,           \* "running", "url" (returned URL), "None", "exception"
    error,            \* the message given to st.error, "" when none
    missing,          \* the columns that message lists
    columns,          \* df.columns of the uploaded file
    rows,             \* the rows of the uploaded file
    df,               \* the rows after filtering and deduplication
    authed,           \* get_gspread_client() returned a client
    reads,            \* the review tabs whose column was read, in order
    alex_invoices,
    eugene_invoices,
    invoice_to_tab,
    tab_log,          \* plumbing: the tabs tried and what became of each
    buckets,          \* the bucket lists of the categorizing loop
    ordered_df,
    created,          \* client.create made a spreadsheet
    uploads,          \* the worksheet.update calls that succeeded
    formats,          \* the request of the worksheet.batch_format call
    standard,         \* apply_standard_formatting completed
    shares,           \* the recipients of the sh.share calls that succeeded
    money_arg,        \* money_to_float: the argument x of a call
    money_ret         \* money_to_float: what the call returned

input == <<variant, columns, rows>>
outcome == <<result, error, missing>>
refs == <<reads, alex_invoices, eugene_invoices, invoice_to_tab, tab_log>>
data == <<df, buckets, ordered_df>>
sink == <<created, uploads, formats, standard, shares>>
money == <<money_arg, money_ret>>

\* No call of money_to_float on its own is under way / has returned.
NoCall == [kind |-> "none"]
vars == <<pc, input, outcome, authed, refs, data, sink, money>>

Init ==
    /\ variant \in Variants
    /\ pc = "read"
    /\ result = "running"
    /\ error = ""
    /\ missing = <<>>
    /\ columns = {}
    /\ rows = <<>>
    /\ df = <<>>
    /\ authed = FALSE
    /\ reads = <<>>
    /\ alex_invoices = {}
    /\ eugene_invoices = {}
    /\ invoice_to_tab = <<>>
    /\ tab_log = <<>>
    /\ buckets = [b \in Range(BucketOrder(variant)) |-> <<>>]
    /\ ordered_df = <<>>
    /\ created = FALSE
    /\ uploads = <<>>
    /\ formats = <<>>
    /\ standard = FALSE
    /\ shares = <<>>
    /\ money_arg = NoCall
    /\ money_ret = NoCall

\* The run is at this step and has not ended.
At(step) == pc = step /\ result = "running"

\* st.error(message); return None.  pc keeps the step the run ended at.
ReturnNone(message, cols) ==
    /\ result' = "None"
    /\ error' = message
    /\ missing' = cols
    /\ UNCHANGED pc

\* An exception of a call that no try statement of the function encloses.
Raise ==
    /\ result' = "exception"
    /\ UNCHANGED <<pc, error, missing>>

(***************************************************************************)
(* The steps of a run                                                      *)
(***************************************************************************)
\* 1. Read CSV / XLSX
ReadInput ==
    /\ At("read")
    /\ \E c \in ColumnSets(variant), rs \in RowSeqs(variant) :
          /\ columns' = c
          /\ rows' = rs
    /\ pc' = "validate"
    /\ UNCHANGED <<variant, outcome, authed, refs, data, sink, money>>

\* 2. Validate columns
ValidateColumns ==
    /\ At("validate")
    /\ LET m == MissingColumns(RequiredCols(variant), columns)
       IN  IF m # <<>>
           THEN ReturnNone("missing_columns", m)
           ELSE pc' = "prepare" /\ UNCHANGED outcome
    /\ UNCHANGED <<input, authed, refs, data, sink, money>>

\* 3. Filter, normalize the identifier, remove duplicates
PrepareRows ==
    /\ At("prepare")
    /\ df' = Prepare(variant, rows)
    /\ pc' = "auth"
    /\ UNCHANGED <<input, outcome, authed, refs, buckets, ordered_df, sink, money>>

\* Authenticate without the return of its except branch.
AuthenticateFallsThrough ==
    /\ At("auth")
    /\ \/ /\ authed' = TRUE
          /\ UNCHANGED outcome
       \/ /\ error' = "auth_failed"
          /\ UNCHANGED <<authed, result, missing>>
    /\ pc' = IF variant = "plumbing" THEN "create" ELSE "fetch"
    /\ UNCHANGED <<input, refs, data, sink, money>>

\* 4. (plumbing: 3.) Auth Google Sheets
Authenticate ==
    /\ At("auth")
    /\ \/ /\ authed' = TRUE
          /\ pc' = IF variant = "plumbing" THEN "create" ELSE "fetch"
          /\ UNCHANGED outcome
       \/ /\ ReturnNone("auth_failed", <<>>)
          /\ UNCHANGED authed
    /\ UNCHANGED <<input, refs, data, sink, money>>

\* 5. Fetch review invoices (generic and US)
FetchReviews ==
    /\ At("fetch")
    /\ variant # "plumbing"
    /\ \/ \* client.open or the first worksheet read raises
          /\ ReturnNone("reviews_unreadable", <<>>)
          /\ UNCHANGED refs
       \/ \* the second worksheet read raises
          /\ \E a \in ReviewerLists :
                /\ alex_invoices' = ReviewSet(a)
                /\ reads' = <<"Oleksandr Leoshko">>
          /\ ReturnNone("reviews_unreadable", <<>>)
          /\ UNCHANGED <<eugene_invoices, invoice_to_tab, tab_log>>
       \/ /\ \E a \in ReviewerLists, e \in ReviewerLists :
                /\ alex_invoices' = ReviewSet(a)
                /\ eugene_invoices' = ReviewSet(e)
          /\ reads' = <<"Oleksandr Leoshko", "Eugene Yuskov">>
          /\ pc' = "categorize"
          /\ UNCHANGED <<outcome, invoice_to_tab, tab_log>>
    /\ UNCHANGED <<input, authed, data, sink, money>>

\* The tabs of a log that were read.
TabsRead(log) ==
    LET ok == SelectSeq(log, LAMBDA e : e.st = "ok")
    IN  [i \in 1..Len(ok) |-> ok[i].tab]

\* 6. Fetch review invoices from all tabs (plumbing)
FetchPlumbingReviews ==
    /\ At("fetch")
    /\ variant = "plumbing"
    /\ \/ \* client.open_by_key raises
          /\ ReturnNone("reviews_unreadable", <<>>)
          /\ UNCHANGED refs
       \/ \E ts \in [TabNames -> TabStates] :
             LET r == LoadTabs(PLUMBING_REVIEW_TABS, ts, <<>>, <<>>)
             IN  /\ invoice_to_tab' = r.map
                 /\ tab_log' = r.log
                 /\ reads' = TabsRead(r.log)
                 /\ IF r.failed
                    THEN ReturnNone("reviews_unreadable", <<>>)
                    ELSE pc' = "categorize" /\ UNCHANGED outcome
                 /\ UNCHANGED <<alex_invoices, eugene_invoices>>
    /\ UNCHANGED <<input, authed, data, sink, money>>

\* The rows as the categorizing loop hands them on: the plumbing report adds
\* the "Found On" column and turns the values into plain text again.
Categorized(v, d, map) ==
    IF v = "plumbing"
    THEN [i \in 1..Len(d) |->
             [idx |-> d[i].idx, inv |-> PlainString(d[i].inv),
              balance |-> d[i].balance, found |-> FoundOn(d[i], map)]]
    ELSE d

\* The bucket lists after the loop over df.iterrows().
Buckets(v, d, alex, eugene, map) ==
    [b \in Range(BucketOrder(v)) |->
        LET keep == {i \in 1..Len(d) :
                        b \in (IF v = "plumbing"
                               THEN CategorizePlumbingRow(d[i], map)
                               ELSE CategorizeRow(v, d[i], alex, eugene))}
            RECURSIVE Pick(_)
            Pick(i) == IF i > Len(d) THEN <<>>
                       ELSE (IF i \in keep THEN <<Categorized(v, d, map)[i]>> ELSE <<>>)
                            \o Pick(i + 1)
        IN  Pick(1)]

\* 6. (plumbing: 7.) Categorize rows and order them
Categorize ==
    /\ At("categorize")
    /\ buckets' = Buckets(variant, df, alex_invoices, eugene_invoices, invoice_to_tab)
    /\ ordered_df' = OrderedRows(variant, buckets')
    /\ pc' = IF variant = "plumbing" THEN "reupload" ELSE "create"
    /\ UNCHANGED <<input, outcome, authed, refs, df, sink, money>>

\* 7. (plumbing: 4.) Create Google Sheet
CreateSheet ==
    /\ At("create")
    /\ \/ /\ created' = TRUE
          /\ pc' = "upload"
          /\ UNCHANGED outcome
       \/ \* client.create raises
          /\ Raise
          /\ UNCHANGED created
       \/ \* sh.get_worksheet(0) raises
          /\ created' = TRUE
          /\ Raise
    /\ UNCHANGED <<input, authed, refs, data, uploads, formats, standard, shares, money>>

\* [columns] + rows of the first worksheet.update of a run: the ordered rows
\* (generic, US), or the deduplicated rows before the review tabs are read
\* (plumbing).
UploadContent(v, d, ordered) ==
    CASE v = "crm" -> [header |-> CRM_REQUIRED_COLS, rows |-> ordered]
      [] v = "usa" -> [header |-> USA_OUTPUT_COLS, rows |-> ordered]
      [] OTHER -> [header |-> PLUMBING_OUTPUT_COLS, rows |-> d]

\* 8. (plumbing: 5.) Upload data
UploadData ==
    /\ At("upload")
    /\ \/ /\ uploads' = Append(uploads, UploadContent(variant, df, ordered_df))
          /\ pc' = IF variant = "plumbing" THEN "fetch" ELSE "highlight"
          /\ UNCHANGED outcome
       \/ \* worksheet.update raises
          /\ Raise
          /\ UNCHANGED uploads
    /\ UNCHANGED <<input, authed, refs, data, created, formats, standard, shares, money>>

\* The second upload with the rows found on a review tab only.
UploadReorderedFoundOnly ==
    /\ At("reupload")
    /\ \/ /\ uploads' = Append(uploads, [header |-> FINAL_COLS,
                                          rows |-> buckets["duplicate_rows"]])
          /\ pc' = "highlight"
          /\ UNCHANGED outcome
       \/ \* worksheet.update raises
          /\ Raise
          /\ UNCHANGED uploads
    /\ UNCHANGED <<input, authed, refs, data, created, formats, standard, shares, money>>

\* 8. Upload reordered data (plumbing)
UploadReordered ==
    /\ At("reupload")
    /\ \/ /\ uploads' = Append(uploads, [header |-> FINAL_COLS, rows |-> ordered_df])
          /\ pc' = "highlight"
          /\ UNCHANGED outcome
       \/ \* worksheet.update raises
          /\ Raise
          /\ UNCHANGED uploads
    /\ UNCHANGED <<input, authed, refs, data, created, formats, standard, shares, money>>

\* 9. Formatting: the bucket highlights
Highlight ==
    /\ At("highlight")
    /\ \/ /\ formats' = HighlightFormats(variant, buckets)
          /\ pc' = "standard"
          /\ UNCHANGED outcome
       \/ \* worksheet.batch_format raises
          /\ HighlightFormats(variant, buckets) # <<>>
          /\ Raise
          /\ UNCHANGED formats
    /\ UNCHANGED <<input, authed, refs, data, created, uploads, standard, shares, money>>

\* 9. Formatting: apply_standard_formatting
StandardFormatting ==
    /\ At("standard")
    /\ \/ /\ standard' = TRUE
          /\ pc' = "share"
          /\ UNCHANGED outcome
       \/ \* worksheet.format or sh.batch_update raises
          /\ Raise
          /\ UNCHANGED standard
    /\ UNCHANGED <<input, authed, refs, data, created, uploads, formats, shares, money>>

\* Share with the return inside the loop over the recipients.
ShareReturnsAfterFirst ==
    /\ At("share")
    /\ \/ /\ shares' = Append(shares, ShareEmails(variant)[Len(shares) + 1])
          /\ result' = "url"
          /\ pc' = "return"
          /\ UNCHANGED <<error, missing>>
       \/ \* sh.share raises
          /\ Raise
          /\ UNCHANGED shares
    /\ UNCHANGED <<input, authed, refs, data, created, uploads, formats, standard, money>>

\* 10. Share, and return the URL after the last recipient
Share ==
    /\ At("share")
    /\ \/ /\ shares' = Append(shares, ShareEmails(variant)[Len(shares) + 1])
          /\ IF Len(shares) + 1 = Len(ShareEmails(variant))
             THEN /\ result' = "url"
                  /\ pc' = "return"
                  /\ UNCHANGED <<error, missing>>
             ELSE UNCHANGED <<pc, outcome>>
       \/ \* sh.share raises
          /\ Raise
          /\ UNCHANGED shares
    /\ UNCHANGED <<input, authed, refs, data, created, uploads, formats, standard, money>>

Next ==
    \/ ReadInput
    \/ ValidateColumns
    \/ PrepareRows
    \/ Authenticate
    \/ FetchReviews
    \/ FetchPlumbingReviews
    \/ Categorize
    \/ CreateSheet
    \/ UploadData
    \/ UploadReordered
    \/ Highlight
    \/ StandardFormatting
    \/ Share

Spec == Init /\ [][Next]_vars

(***************************************************************************)
(* money_to_float on its own: one call on one scalar.  The argument is a   *)
(* missing value, a float cell, or a text of at most MaxMoneyLen            *)
(* characters of MoneyAlphabet; the texts the function's docstring and the *)
(* specification give as examples are added as they stand.                 *)
(***************************************************************************)
MaxMoneyLen == 3

MoneyAlphabet == {"$", ",", " ", ".", "-", "0", "5", "n", "a", "i", "f", "x"}

MoneyTexts == UNION {[1..n -> MoneyAlphabet] : n \in 0..MaxMoneyLen}

MoneyExamples ==
    { <<"$", "1", ",", "2", "3", "4", ".", "5", "0">>,
      <<"$", "1", "7", "0", ".", "6", "3">>,
      <<"1", "7", "0", ".", "6", "3">> }

MoneyInputs ==
    {NaN, Float(<<"0">>), Float(<<"5">>), Float(<<"5", "0">>)}
        \cup {Str(s) : s \in MoneyTexts \cup MoneyExamples}

MoneyInit ==
    /\ variant = "crm"
    /\ pc = "money"
    /\ result = "running"
    /\ error = ""
    /\ missing = <<>>
    /\ columns = {}
    /\ rows = <<>>
    /\ df = <<>>
    /\ authed = FALSE
    /\ reads = <<>>
    /\ alex_invoices = {}
    /\ eugene_invoices = {}
    /\ invoice_to_tab = <<>>
    /\ tab_log = <<>>
    /\ buckets = [b \in Range(BucketOrder(variant)) |-> <<>>]
    /\ ordered_df = <<>>
    /\ created = FALSE
    /\ uploads = <<>>
    /\ formats = <<>>
    /\ standard = FALSE
    /\ shares = <<>>
    /\ money_arg \in MoneyInputs
    /\ money_ret = NoCall

\* One call money_to_float(x).
CallMoneyToFloat ==
    /\ pc = "money"
    /\ money_ret = NoCall
    /\ money_ret' = money_to_float(money_arg)
    /\ UNCHANGED <<pc, input, outcome, authed, refs, data, sink, money_arg>>

MoneySpec == MoneyInit /\ [][CallMoneyToFloat]_vars

(***************************************************************************)
(* Properties                                                              *)
(***************************************************************************)
\* Nothing of the sink has been touched.
NothingPublished ==
    /\ ~created
    /\ uploads = <<>>
    /\ formats = <<>>
    /\ ~standard
    /\ shares = <<>>

\* No review list has been read.
NothingRead == reads = <<>> /\ tab_log = <<>>

Ended == result # "running"

\* C1: a run has no partial success: whenever a run ends in failure (st.error
\* and None, or an exception), no spreadsheet has been created and no rows
\* have been written during it.
C1_NoPartialPublish ==
    result \in {"None", "exception"} => ~created /\ uploads = <<>>

\* C2: if get_gspread_client() fails the run ends in failure at once: no
\* review list is ever read and the sink is never touched in that run; and no
\* run reads a list or touches the sink without a client.
C2_AuthFailureAborts ==
    /\ error = "auth_failed" =>
          /\ result = "None"
          /\ ~authed
          /\ NothingRead
          /\ NothingPublished
    /\ ~authed => NothingRead /\ NothingPublished

\* A run with rows to publish whose authentication failed.
C2_Witness ==
    /\ error = "auth_failed"
    /\ Len(df) >= 2
    /\ variant = "plumbing"

\* The position of column c in the list cols.
Pos(cols, c) == CHOOSE i \in DOMAIN cols : cols[i] = c

\* C3: when a required column is absent the run fails, the message lists
\* exactly the absent required columns, each once and in the order of the
\* required list, and nothing after validation has happened (no filtering or
\* deduplication, no authentication, no review list read, no sink call); when
\* none is absent validation does not fail the run.
C3_ColumnValidation ==
    LET req    == RequiredCols(variant)
        absent == {c \in Range(req) : c \notin columns}
    IN  pc \notin {"read", "validate"} \/ Ended =>
          /\ absent # {} =>
                /\ result = "None"
                /\ error = "missing_columns"
                /\ pc = "validate"
                /\ Range(missing) = absent
                /\ Len(missing) = Cardinality(absent)
                /\ \A i, j \in DOMAIN missing :
                      i < j => Pos(req, missing[i]) < Pos(req, missing[j])
                /\ df = <<>>
                /\ ~authed
                /\ NothingRead
                /\ NothingPublished
          /\ absent = {} => error # "missing_columns" /\ missing = <<>>

\* A file that lacks two required columns and holds rows that would survive
\* the filter.
C3_Witness ==
    /\ error = "missing_columns"
    /\ Len(missing) = 2
    /\ Prepare(variant, rows) # <<>>

\* C4: every call ends in one terminal outcome, a returned location or a
\* reported failure (a message and None); a failing sink call is reported so,
\* and never leaves the function as an exception.
C4_SingleTerminalOutcome ==
    Ended =>
       \/ result = "url" /\ error = ""
       \/ result = "None" /\ error # ""

\* C5 as stated: in the plumbing report a review tab that is unavailable (it
\* is missing, or reading it fails) is skipped and the run continues: every
\* configured tab is tried in the configured order, the run does not end at
\* the review tabs, and only tabs that were read add to the mapping.
C5_UnavailableTabSkipped ==
    variant = "plumbing" /\ tab_log # <<>> =>
       /\ Len(tab_log) = Len(PLUMBING_REVIEW_TABS)
       /\ \A i \in DOMAIN tab_log : tab_log[i].tab = PLUMBING_REVIEW_TABS[i].tab
       /\ error # "reviews_unreadable"
       /\ \A inv \in DOMAIN invoice_to_tab :
             \E i \in DOMAIN tab_log :
                tab_log[i].st = "ok" /\ invoice_to_tab[inv] = tab_log[i].tab

\* C5, amended: in the plumbing report a review tab that is missing from the
\* reviews spreadsheet (WorksheetNotFound) is skipped: the tabs are tried in
\* the configured order, the run is not ended because of a missing tab, every
\* tab that exists is read, and no identifier is mapped to a skipped tab.  A
\* tab whose read fails in any other way ends the run with a reported failure.
C5_MissingTabSkipped ==
    variant = "plumbing" /\ tab_log # <<>> =>
       LET tabs     == PLUMBING_REVIEW_TABS
           loaded   == {i \in DOMAIN tab_log : tab_log[i].st = "ok"}
           readFail == {i \in DOMAIN tab_log : tab_log[i].st = "error"}
       IN  /\ Len(tab_log) <= Len(tabs)
           /\ \A i \in DOMAIN tab_log : tab_log[i].tab = tabs[i].tab
           /\ readFail = {} =>
                 /\ Len(tab_log) = Len(tabs)
                 /\ error # "reviews_unreadable"
                 /\ pc # "fetch"
           /\ readFail # {} =>
                 /\ readFail = {Len(tab_log)}
                 /\ result = "None"
                 /\ error = "reviews_unreadable"
                 /\ pc = "fetch"
           /\ Len(reads) = Cardinality(loaded)
           /\ \A i \in loaded :
                 reads[Cardinality({j \in loaded : j <= i})] = tab_log[i].tab
           /\ \A inv \in DOMAIN invoice_to_tab :
                 \E i \in loaded :
                    /\ invoice_to_tab[inv] = tab_log[i].tab
                    /\ inv \in ReviewSet(tab_log[i].values)

\* A run that returned its URL although the first tab was missing, with an
\* identifier found on a later tab.
C5_Witness ==
    /\ variant = "plumbing"
    /\ result = "url"
    /\ Len(tab_log) = 3
    /\ tab_log[1].st = "missing"
    /\ tab_log[2].st = "ok"
    /\ \E r \in Range(ordered_df) : r.found = "Alex"

\* The categorizing loop and the concatenation have run.
CategorizeDone ==
    IF variant = "plumbing"
    THEN pc \in {"reupload", "highlight", "standard", "share", "return"}
    ELSE pc \in {"create", "upload", "highlight", "standard", "share", "return"}

\* The buckets in the priority order the specification fixes.
ClaimedOrder ==
    CASE variant = "crm" -> <<"regular_no_due", "regular_due", "yellow_rows", "orange_rows">>
      [] variant = "usa" -> <<"regular_rows", "yellow_rows", "orange_rows">>
      [] OTHER -> <<"clean_rows", "duplicate_rows">>

\* The non-default buckets with their colours, in priority order.
ClaimedHighlights ==
    IF variant = "plumbing"
    THEN <<[bucket |-> "duplicate_rows", color |-> "dark_red"]>>
    ELSE <<[bucket |-> "yellow_rows", color |-> "yellow"],
           [bucket |-> "orange_rows", color |-> "orange"]>>

\* Row x (an index label of the input) is in bucket b.
InBucket(b, x) == \E k \in DOMAIN buckets[b] : buckets[b][k].idx = x

\* The places <<bucket, position>> that hold row x.
Places(x) ==
    UNION {{<<b, k>> : k \in {n \in DOMAIN buckets[b] : buckets[b][n].idx = x}} :
           b \in DOMAIN buckets}

LastUpload == uploads[Len(uploads)]

\* C6: classification is exhaustive and exclusive: every row that survived
\* filtering and deduplication is in exactly one place of exactly one bucket,
\* the buckets hold no other row, and as many data rows are published as the
\* deduplication left.
C6_ExhaustiveExclusive ==
    CategorizeDone =>
       /\ DOMAIN buckets = Range(ClaimedOrder)
       /\ \A i \in DOMAIN df : Cardinality(Places(df[i].idx)) = 1
       /\ \A b \in DOMAIN buckets : \A k \in DOMAIN buckets[b] :
             \E i \in DOMAIN df :
                df[i].idx = buckets[b][k].idx /\ df[i].inv = buckets[b][k].inv
       /\ Len(ordered_df) = Len(df)
       /\ result = "url" => Len(LastUpload.rows) = Len(df)

\* A generic run that returned its URL with three rows in three buckets.
C6_Witness ==
    /\ variant = "crm"
    /\ result = "url"
    /\ Len(df) = 3
    /\ Cardinality({b \in DOMAIN buckets : buckets[b] # <<>>}) = 3

\* The tabs read that hold identifier inv, as positions of the tab list.
Holders(inv) ==
    {i \in DOMAIN tab_log :
        tab_log[i].st = "ok" /\ Strip(inv) \in ReviewSet(tab_log[i].values)}

\* C7: the first reference set that holds the trimmed identifier wins.
\* Generic and US: a row in the first reviewer's list is in the yellow bucket
\* also when it is in the second list and whatever its balance, a row only
\* in the second list is in the orange bucket, a row in neither is in neither.
\* Plumbing: "Found On" names the first tab, in configured order among the
\* tabs read, that holds the identifier, and is empty for the other rows.
C7_FirstMatchWins ==
    CategorizeDone =>
       IF variant # "plumbing"
       THEN \A i \in DOMAIN df :
               LET inv == Strip(df[i].inv)
                   x   == df[i].idx
               IN  /\ inv \in alex_invoices => InBucket("yellow_rows", x)
                   /\ inv \notin alex_invoices /\ inv \in eugene_invoices =>
                         InBucket("orange_rows", x)
                   /\ inv \notin alex_invoices \cup eugene_invoices =>
                         ~InBucket("yellow_rows", x) /\ ~InBucket("orange_rows", x)
                   /\ inv \in alex_invoices \cup eugene_invoices =>
                         \A b \in DOMAIN buckets \ {"yellow_rows", "orange_rows"} :
                            ~InBucket(b, x)
       ELSE \A k \in DOMAIN ordered_df :
               LET r == ordered_df[k]
               IN  /\ r.found = IF Holders(r.inv) = {} THEN ""
                                ELSE PLUMBING_REVIEW_TABS[SetMin(Holders(r.inv))].tab
                   /\ InBucket("duplicate_rows", r.idx) <=> Holders(r.inv) # {}

\* A generic run with a row of positive balance that is in both reviewer
\* lists and was put in the yellow bucket.
C7_Witness ==
    /\ variant = "crm"
    /\ CategorizeDone
    /\ \E k \in DOMAIN buckets["yellow_rows"] :
          LET r == buckets["yellow_rows"][k]
          IN  /\ r.inv \in alex_invoices \cap eugene_invoices
              /\ GreaterThanZero(money_to_float(r.balance))

RECURSIVE RowsBefore(_, _)
\* The number of rows in the first n buckets of the priority order.
RowsBefore(order, n) ==
    IF n = 0 THEN 0 ELSE RowsBefore(order, n - 1) + Len(buckets[order[n]])

RECURSIVE RangeTotal(_)
RangeTotal(fs) ==
    IF fs = <<>> THEN 0
    ELSE (Head(fs).last - Head(fs).first + 1) + RangeTotal(Tail(fs))

\* C8: each non-empty non-default bucket has exactly one highlight range, from
\* sheet row 2 + (rows of the buckets before it) to that plus its size - 1; an
\* empty bucket has none; the ranges are in priority order, do not overlap,
\* leave out the header row and cover exactly the sheet rows of their bucket.
C8_HighlightRanges ==
    pc \in {"standard", "share", "return"} =>
       LET nonempty == SelectSeq(ClaimedHighlights, LAMBDA h : buckets[h.bucket] # <<>>)
       IN  /\ Len(formats) = Len(nonempty)
           /\ LastUpload.rows = ordered_df
           /\ \A i \in DOMAIN formats :
                 LET b == nonempty[i].bucket
                     f == formats[i]
                 IN  /\ f.color = nonempty[i].color
                     /\ f.first = 2 + RowsBefore(ClaimedOrder, Pos(ClaimedOrder, b) - 1)
                     /\ f.last = f.first + Len(buckets[b]) - 1
                     /\ f.first >= 2
                     /\ \A k \in DOMAIN ordered_df :
                           InBucket(b, ordered_df[k].idx) <=> k + 1 \in f.first..f.last
                     /\ f.last <= Len(ordered_df) + 1
           /\ \A i, j \in DOMAIN formats : i < j => formats[i].last < formats[j].first
           /\ RangeTotal(formats) =
                 RowsBefore(ClaimedOrder, Len(ClaimedOrder))
                 - RowsBefore(ClaimedOrder, Len(ClaimedOrder) - Len(ClaimedHighlights))

\* A generic run with a default row above a yellow and an orange range.
C8_Witness ==
    /\ variant = "crm"
    /\ result = "url"
    /\ Len(formats) = 2
    /\ formats[1].first = 3

\* The row is matched by a reference set.
Matched(r) ==
    IF variant = "plumbing" THEN Strip(r.inv) \in DOMAIN invoice_to_tab
    ELSE Strip(r.inv) \in alex_invoices \cup eugene_invoices

\* The position in the deduplicated input of the row with index label x.
PosInDf(x) == CHOOSE i \in DOMAIN df : df[i].idx = x

\* C9: the published rows are the buckets concatenated in the fixed priority
\* order, default buckets first; within a bucket the rows keep their order of
\* the deduplicated input; no default row is below a reference-matched row.
C9_PriorityOrder ==
    CategorizeDone =>
       /\ ordered_df =
             (CASE variant = "crm" ->
                     buckets["regular_no_due"] \o buckets["regular_due"]
                     \o buckets["yellow_rows"] \o buckets["orange_rows"]
                [] variant = "usa" ->
                     buckets["regular_rows"] \o buckets["yellow_rows"]
                     \o buckets["orange_rows"]
                [] OTHER -> buckets["clean_rows"] \o buckets["duplicate_rows"])
       /\ \A b \in DOMAIN buckets : \A k, l \in DOMAIN buckets[b] :
             k < l => PosInDf(buckets[b][k].idx) < PosInDf(buckets[b][l].idx)
       /\ \A i, j \in DOMAIN ordered_df :
             i < j /\ Matched(ordered_df[i]) => Matched(ordered_df[j])
       /\ result = "url" => LastUpload.rows = ordered_df

\* A run that returned its URL after moving a matched row below a default row
\* that followed it in the input.
C9_Witness ==
    /\ result = "url"
    /\ Len(ordered_df) = 3
    /\ \E i, j \in DOMAIN ordered_df :
          /\ i < j
          /\ ordered_df[i].idx > ordered_df[j].idx
          /\ Matched(ordered_df[j])
          /\ ~Matched(ordered_df[i])

\* The input rows that pass the payment-amount filter (all, for plumbing).
Passing ==
    {i \in DOMAIN rows :
        variant = "plumbing" \/ GreaterThanZero(money_to_float(rows[i].amount))}

\* C10: the identifiers of the output are pairwise distinct; the row kept for
\* a normalized identifier is the first row of the input, among those that
\* passed the payment-amount filter, that carries it; deduplicating the
\* output again removes nothing.
C10_UniqueFirstOccurrence ==
    pc \notin {"read", "validate", "prepare"} =>
       LET out == IF CategorizeDone THEN ordered_df ELSE df
       IN  /\ \A i, j \in DOMAIN out : i # j => out[i].inv # out[j].inv
           /\ \A k \in DOMAIN df :
                 /\ df[k].idx \in Passing
                 /\ \A j \in Passing :
                       NormalizeId(variant, rows[j].inv)
                          = NormalizeId(variant, rows[df[k].idx].inv)
                       => j >= df[k].idx
           /\ \A j \in Passing :
                 \E k \in DOMAIN df :
                    NormalizeId(variant, rows[df[k].idx].inv)
                       = NormalizeId(variant, rows[j].inv)
           /\ drop_duplicates(out) = out

(***************************************************************************)
(* money_to_float                                                          *)
(***************************************************************************)
\* The text of a cell with "$", "," and surrounding whitespace removed.
MoneyCleaned(c) == Strip(RemoveChars(AsStr(c), {"$", ","}))

\* A text that is a number: an optional sign, then decimal digits with at
\* most one decimal point and at least one digit.
IsNumberText(s) ==
    LET body == IF s # <<>> /\ s[1] \in {"+", "-"} THEN SubSeq(s, 2, Len(s)) ELSE s
    IN  /\ \E i \in 1..Len(body) : IsDigit(body[i])
        /\ \A i \in 1..Len(body) : IsDigit(body[i]) \/ body[i] = "."
        /\ Cardinality({i \in 1..Len(body) : body[i] = "."}) <= 1

RECURSIVE Pow10(_)
Pow10(n) == IF n = 0 THEN 1 ELSE 10 * Pow10(n - 1)

\* The number a number text denotes, scaled by 10^scale, read digit by digit
\* from the left with the weight of each position.
RECURSIVE ScaledValue(_, _, _)
ScaledValue(s, point, scale) ==
    IF s = <<>> THEN 0
    ELSE IF ~IsDigit(Head(s)) THEN ScaledValue(Tail(s), point - 1, scale)
    ELSE LET place == IF point > 1 THEN point - 2 + scale ELSE point - 1 + scale
         IN  DigitVal(Head(s)) * Pow10(place) + ScaledValue(Tail(s), point - 1, scale)

NumberOf(s, scale) ==
    LET dots  == {i \in 1..Len(s) : s[i] = "."}
        point == IF dots = {} THEN Len(s) + 1 ELSE SetMin(dots)
        v     == ScaledValue(s, point, scale)
    IN  IF s[1] = "-" THEN 0 - v ELSE v

\* The number of decimals a number text is written with.
Decimals(s) ==
    LET dots == {i \in 1..Len(s) : s[i] = "."}
    IN  IF dots = {} THEN 0 ELSE Len(s) - SetMin(dots)

\* A returned float f is the number the text s denotes.
IsNumberOf(f, s) ==
    /\ f.kind = "num"
    /\ (IF f.neg THEN 0 - f.mant ELSE f.mant) * Pow10(Decimals(s))
           = NumberOf(s, Decimals(s)) * Pow10(f.frac)

\* C11: money_to_float never raises for a scalar and returns 0.0 for a
\* missing value and for every text that is not a number once "$", "," and
\* surrounding whitespace are removed (empty, whitespace only, symbols only,
\* any other non-numeric text); for a text that is then a number it returns
\* that number.
C11_MoneyParser ==
    money_ret # NoCall =>
        IF IsNa(money_arg) \/ ~IsNumberText(MoneyCleaned(money_arg))
        THEN money_ret = Zero
        ELSE IsNumberOf(money_ret, MoneyCleaned(money_arg))

(***************************************************************************)
(* The two writes of the plumbing variant                                  *)
(***************************************************************************)
\* The cells of the worksheet a write fills: the header row and one row for
\* each data row, as wide as the header.
CellsOf(u) == (1..(Len(u.rows) + 1)) \X (1..Len(u.header))

\* A row of the second write without its "Found On" value.
WithoutFoundOn(r) == [idx |-> r.idx, inv |-> r.inv, balance |-> r.balance]

\* How often row r occurs in the row list rs.
Occurrences(r, rs) == Cardinality({i \in DOMAIN rs : rs[i] = r})

\* C12: in the plumbing variant the sheet is written twice; the second write
\* holds exactly the rows of the first (same count, same multiset of rows
\* when "Found On" is ignored) under the first header extended by the one
\* column "Found On", so it covers every cell of the first write, and the
\* sheet then shows the reordered rows.
C12_SecondWriteReplacesFirst ==
    (variant = "plumbing" /\ Len(uploads) >= 2) =>
        LET first   == uploads[1]
            second  == uploads[2]
            stripped == [i \in DOMAIN second.rows |-> WithoutFoundOn(second.rows[i])]
        IN  /\ Len(uploads) = 2
            /\ Len(second.rows) = Len(first.rows)
            /\ \A r \in Range(first.rows) \cup Range(stripped) :
                  Occurrences(r, stripped) = Occurrences(r, first.rows)
            /\ second.header = first.header \o <<"Found On">>
            /\ CellsOf(first) \subseteq CellsOf(second)
            /\ second.rows = ordered_df
            /\ (result = "url" => LastUpload = second)

\* A plumbing run succeeded with three rows, of which one was found on a
\* review tab and stands below a later row that was not: the second write
\* differs from the first in the order of its rows.
C12_Witness ==
    /\ variant = "plumbing"
    /\ result = "url"
    /\ Len(uploads) = 2
    /\ Len(uploads[1].rows) = 3
    /\ \E i \in 1..3 : uploads[2].rows[i].idx # uploads[1].rows[i].idx
    /\ \E i \in 1..3 : uploads[2].rows[i].found # ""

(***************************************************************************)
(* Sharing comes last                                                      *)
(***************************************************************************)
\* The worksheet.update calls a run of the variant makes.
ClaimedUploads == IF variant = "plumbing" THEN 2 ELSE 1

\* The final upload, the bucket highlights and the standard formatting have
\* all completed.
PublishingDone ==
    /\ Len(uploads) = ClaimedUploads
    /\ LastUpload.rows = ordered_df
    /\ pc \in {"share", "return"}
    /\ formats = HighlightFormats(variant, buckets)
    /\ standard

\* Nothing is written or formatted in this step.
SheetUntouched == UNCHANGED <<uploads, formats, standard>>

\* C13: the sheet is shared only after the final upload, the bucket
\* highlights and the standard formatting have completed: every share call
\* is made when all three are done and none of them follows a share call;
\* a run that returned failure has shared with nobody; and a URL is
\* returned only when every configured recipient has been shared with.
C13_ShareLast ==
    /\ [](shares # <<>> => PublishingDone)
    /\ [][shares' # shares => PublishingDone /\ SheetUntouched]_vars
    /\ [][shares # <<>> => SheetUntouched]_vars
    /\ [](result = "None" => shares = <<>>)
    /\ [](result = "url" =>
            /\ Len(shares) = (IF variant = "plumbing" THEN 2 ELSE 1)
            /\ Range(shares) = Range(ShareEmails(variant)))

\* A plumbing run returned its URL after both recipients were shared with,
\* on a sheet with a highlighted range.
C13_Witness ==
    /\ variant = "plumbing"
    /\ result = "url"
    /\ Len(shares) = 2
    /\ shares[1] # shares[2]
    /\ formats # <<>>
    /\ PublishingDone

====
